---- MODULE Spec2Model ----
(***************************************************************************)
(* Model of the detect-desktop-environment crate (src/src/lib.rs).         *)
(*                                                                         *)
(* A behaviour is one call of one public function of DesktopEnvironment:   *)
(* the initial state fixes the call and its inputs (for detect(): the      *)
(* build target and the process environment), the actions execute it.      *)
(* from_xdg_current_desktop is executed one loop iteration per step, so    *)
(* that the "resolved" slot can be observed during the scan.               *)
(*                                                                         *)
(* Strings.  A name handed to from_freedesktop / from_xdg_name is a TLA+   *)
(* string.  The value of XDG_CURRENT_DESKTOP and the argument of           *)
(* from_xdg_current_desktop are sequences of chunks: a chunk is either the *)
(* delimiter ":" or a colon-free piece of text; adjacent pieces            *)
(* concatenate ("GNOME" followed by "-Classic" is the text GNOME-Classic). *)
(* An environment value may also hold InvalidBytes, a piece that is not    *)
(* valid Unicode (for instance the single byte 0xFF).                      *)
(*                                                                         *)
(* Option<T>: None is the string "None", Some(d) is d itself.              *)
(***************************************************************************)
EXTENDS Naturals, Sequences, FiniteSets

VARIABLES
  platform,             \* target_os the crate was built for
  env,                  \* XDG_CURRENT_DESKTOP in the process environment
  call,                 \* the public function called and its argument
  pc,                   \* "call": entered, "loop": in the for loop, "done": returned
  xdg_current_desktop,  \* parameter of from_xdg_current_desktop
  parts,                \* tokens the split(':') iterator has not yielded yet
  resolved,             \* the local `resolved` of from_xdg_current_desktop
  ret                   \* the value returned by the call

vars == <<platform, env, call, pc, xdg_current_desktop, parts, resolved, ret>>

-----------------------------------------------------------------------------
(* Bounds of the model *)

\* longest argument of from_xdg_current_desktop, in chunks
MaxLen == 5

\* longest value of XDG_CURRENT_DESKTOP, in chunks
MaxEnvLen == 3

-----------------------------------------------------------------------------
(* Data *)

None == "None"

DesktopEnvironment ==
  { "Cinnamon", "Cosmic", "Dde", "Ede", "Endless", "Enlightenment", "Gnome",
    "Hyprland", "Kde", "Lxde", "Lxqt", "MacOs", "Mate", "Old", "Pantheon",
    "Razor", "Rox", "Sway", "Tde", "Unity", "Windows", "Xfce" }

Platforms == { "macos", "windows", "linux", "freebsd" }

\* names tried on from_freedesktop and from_xdg_name: every spelling of the
\* two tables, case variants of them, variant names, and unknown names
Names ==
  { "GNOME", "GNOME-Classic", "GNOME-Flashback", "KDE", "LXDE", "LXQt", "MATE",
    "Razor", "ROX", "TDE", "Unity", "XFCE", "EDE", "Cinnamon", "Pantheon",
    "DDE", "Endless", "Old",
    "ENLIGHTENMENT", "Hyprland", "SWAY", "X-Cinnamon",
    "kde", "Kde", "gnome", "Gnome", "gnome-classic", "GNOME-classic", "lxqt",
    "LXQT", "Lxde", "mate", "razor", "rox", "unity", "UNITY", "xfce", "Xfce",
    "cinnamon", "CINNAMON", "x-cinnamon", "pantheon", "dde", "Dde", "old",
    "OLD", "endless", "sway", "Sway", "hyprland", "HYPRLAND", "Enlightenment",
    "Cosmic", "COSMIC", "pop:COSMIC", "MacOs", "macOS", "Windows", "windows",
    "", "foo", "ubuntu", "pop", "unknown_de", "KDE:GNOME", " KDE", "KDE " }

Delim == ":"

InvalidBytes == "<0xFF>"

Chunks == { Delim, "KDE", "GNOME", "-Classic", "ubuntu", "COSMIC" }

SeqsUpTo(S, n) == UNION { [1..k -> S] : k \in 0..n }

Strs == SeqsUpTo(Chunks, MaxLen)

OsStrings == SeqsUpTo(Chunks \cup {InvalidBytes}, MaxEnvLen)

NotPresent == [present |-> FALSE, value |-> <<>>]

EnvValues == {NotPresent} \cup { [present |-> TRUE, value |-> v] : v \in OsStrings }

Calls ==
       { [fn |-> "detect"] }
  \cup { [fn |-> "from_freedesktop", name |-> n] : n \in Names }
  \cup { [fn |-> "from_xdg_name", name |-> n] : n \in Names }
  \cup { [fn |-> "from_xdg_current_desktop", xdg_current_desktop |-> s] : s \in Strs }
  \cup { [fn |-> "gtk", self |-> d] : d \in DesktopEnvironment }
  \cup { [fn |-> "qt", self |-> d] : d \in DesktopEnvironment }

-----------------------------------------------------------------------------
(* Pure functions *)

\* faulty variant: the GTK set without the variants added last
gtk_without_later(self) ==
  self \in { "Cinnamon", "Cosmic", "Gnome", "Lxde", "Mate", "Unity", "Xfce" }

gtk(self) ==
  self \in { "Cinnamon", "Cosmic", "Dde", "Gnome", "Lxde", "Mate", "Pantheon",
             "Unity", "Xfce" }

qt(self) == self \in { "Kde", "Lxqt", "Razor", "Tde" }

\* faulty variant: the registered names matched without regard to letter case
from_freedesktop_ignore_case(name) ==
  CASE name \in {"GNOME", "gnome", "Gnome"} -> "Gnome"
    [] name \in {"GNOME-Classic", "gnome-classic", "GNOME-classic"} -> "Gnome"
    [] name = "GNOME-Flashback" -> "Gnome"
    [] name \in {"KDE", "kde", "Kde"} -> "Kde"
    [] name \in {"LXDE", "Lxde"} -> "Lxde"
    [] name \in {"LXQt", "lxqt", "LXQT"} -> "Lxqt"
    [] name \in {"MATE", "mate"} -> "Mate"
    [] name \in {"Razor", "razor"} -> "Razor"
    [] name \in {"ROX", "rox"} -> "Rox"
    [] name = "TDE" -> "Tde"
    [] name \in {"Unity", "unity", "UNITY"} -> "Unity"
    [] name \in {"XFCE", "xfce", "Xfce"} -> "Xfce"
    [] name = "EDE" -> "Ede"
    [] name \in {"Cinnamon", "cinnamon", "CINNAMON"} -> "Cinnamon"
    [] name \in {"Pantheon", "pantheon"} -> "Pantheon"
    [] name \in {"DDE", "dde", "Dde"} -> "Dde"
    [] name \in {"Endless", "endless"} -> "Endless"
    [] name \in {"Old", "old", "OLD"} -> "Old"
    [] OTHER -> None

from_freedesktop(name) ==
  CASE name = "GNOME" -> "Gnome"
    [] name = "GNOME-Classic" -> "Gnome"
    [] name = "GNOME-Flashback" -> "Gnome"
    [] name = "KDE" -> "Kde"
    [] name = "LXDE" -> "Lxde"
    [] name = "LXQt" -> "Lxqt"
    [] name = "MATE" -> "Mate"
    [] name = "Razor" -> "Razor"
    [] name = "ROX" -> "Rox"
    [] name = "TDE" -> "Tde"
    [] name = "Unity" -> "Unity"
    [] name = "XFCE" -> "Xfce"
    [] name = "EDE" -> "Ede"
    [] name = "Cinnamon" -> "Cinnamon"
    [] name = "Pantheon" -> "Pantheon"
    [] name = "DDE" -> "Dde"
    [] name = "Endless" -> "Endless"
    [] name = "Old" -> "Old"
    [] OTHER -> None

\* faulty variant: the extra table with an entry for COSMIC
XdgExtraCosmic(name) ==
  CASE name = "COSMIC" -> "Cosmic"
    [] name = "ENLIGHTENMENT" -> "Enlightenment"
    [] name = "Hyprland" -> "Hyprland"
    [] name = "SWAY" -> "Sway"
    [] name = "X-Cinnamon" -> "Cinnamon"
    [] OTHER -> None

XdgExtra(name) ==
  CASE name = "ENLIGHTENMENT" -> "Enlightenment"
    [] name = "Hyprland" -> "Hyprland"
    [] name = "SWAY" -> "Sway"
    [] name = "X-Cinnamon" -> "Cinnamon"
    [] OTHER -> None

\* faulty variant: only the extra table consulted
from_xdg_name_extra_only(name) == XdgExtra(name)

from_xdg_name(name) ==
  IF from_freedesktop(name) # None THEN from_freedesktop(name) ELSE XdgExtra(name)

\* str::split(':'): the tokens between delimiters, in order; text without a
\* delimiter (the empty text included) is one token
RECURSIVE SplitFrom(_, _, _)
SplitFrom(s, cur, acc) ==
  IF s = <<>> THEN Append(acc, cur)
  ELSE IF Head(s) = Delim THEN SplitFrom(Tail(s), "", Append(acc, cur))
  ELSE SplitFrom(Tail(s), cur \o Head(s), acc)

Split(s) == SplitFrom(s, "", <<>>)

\* faulty variant: a conflicting token is ignored (the first classification wins)
IterationFirstWins(part, res) ==
  IF from_xdg_name(part) = None THEN "continue"
  ELSE IF res = None THEN "store"
  ELSE "same"

\* faulty variant: any second classified token is a conflict, duplicates included
IterationNoDuplicates(part, res) ==
  IF from_xdg_name(part) = None THEN "continue"
  ELSE IF res = None THEN "store"
  ELSE "conflict"

\* faulty variant: a conflicting token replaces the stored one (the last one wins)
IterationLastWins(part, res) ==
  IF from_xdg_name(part) = None THEN "continue"
  ELSE IF res = None \/ from_xdg_name(part) # res THEN "store"
  ELSE "same"

\* what one iteration of the for loop does with the token `part`:
\* "continue" (token skipped), "store", "same", or "conflict" (return None)
Iteration(part, res) ==
  IF from_xdg_name(part) = None THEN "continue"
  ELSE IF res = None THEN "store"
  ELSE IF from_xdg_name(part) # res THEN "conflict"
  ELSE "same"

\* the for loop run to its end over the tokens ps, starting with resolved = res
RECURSIVE Scan(_, _)
Scan(ps, res) ==
  IF ps = <<>> THEN res
  ELSE IF Iteration(Head(ps), res) = "conflict" THEN None
  ELSE IF Iteration(Head(ps), res) = "store"
         THEN Scan(Tail(ps), from_xdg_name(Head(ps)))
  ELSE Scan(Tail(ps), res)

\* from_xdg_current_desktop as a function of its argument
from_xdg_current_desktop(s) == Scan(Split(s), None)

\* whether an OS string converts to a String
ValidUnicode(v) == \A i \in 1..Len(v) : v[i] # InvalidBytes

\* faulty variant: the variable read lossily (var_os + to_string_lossy)
VarOkLossy(e) == e.present

\* std::env::var("XDG_CURRENT_DESKTOP").ok() is Some
VarOk(e) == e.present /\ ValidUnicode(e.value)

-----------------------------------------------------------------------------
(* Initial states *)

\* detect() reads the build target and the environment; the other functions
\* read neither, and their calls are explored on one target with the
\* variable unset
Init ==
  /\ call \in Calls
  /\ IF call.fn = "detect"
       THEN platform \in Platforms /\ env \in EnvValues
       ELSE platform = "linux" /\ env = NotPresent
  /\ pc = "call"
  /\ xdg_current_desktop = <<>>
  /\ parts = <<>>
  /\ resolved = None
  /\ ret = None

-----------------------------------------------------------------------------
(* Actions *)

Return(v) ==
  /\ pc' = "done"
  /\ ret' = v
  /\ UNCHANGED <<platform, env, call, xdg_current_desktop, parts, resolved>>

\* entry of from_xdg_current_desktop(s): resolved = None, iterator created
EnterList(s) ==
  /\ pc' = "loop"
  /\ xdg_current_desktop' = s
  /\ parts' = Split(s)
  /\ resolved' = None
  /\ UNCHANGED <<platform, env, call, ret>>

\* faulty variant: the environment variable, when set, consulted on macOS too
DetectMacOsReadsEnv ==
  /\ pc = "call" /\ call.fn = "detect" /\ platform = "macos"
  /\ IF VarOk(env) THEN EnterList(env.value) ELSE Return("MacOs")

DetectMacOs ==
  /\ pc = "call" /\ call.fn = "detect" /\ platform = "macos"
  /\ Return("MacOs")

DetectWindows ==
  /\ pc = "call" /\ call.fn = "detect" /\ platform = "windows"
  /\ Return("Windows")

DetectOtherNoVar ==
  /\ pc = "call" /\ call.fn = "detect" /\ platform \notin {"macos", "windows"}
  /\ ~VarOk(env)
  /\ Return(None)

DetectOtherVar ==
  /\ pc = "call" /\ call.fn = "detect" /\ platform \notin {"macos", "windows"}
  /\ VarOk(env)
  /\ EnterList(env.value)

FromFreedesktop ==
  /\ pc = "call" /\ call.fn = "from_freedesktop"
  /\ Return(from_freedesktop(call.name))

FromXdgName ==
  /\ pc = "call" /\ call.fn = "from_xdg_name"
  /\ Return(from_xdg_name(call.name))

Gtk ==
  /\ pc = "call" /\ call.fn = "gtk"
  /\ Return(gtk(call.self))

Qt ==
  /\ pc = "call" /\ call.fn = "qt"
  /\ Return(qt(call.self))

FromXdgCurrentDesktop ==
  /\ pc = "call" /\ call.fn = "from_xdg_current_desktop"
  /\ EnterList(call.xdg_current_desktop)

LoopStep ==
  /\ pc = "loop" /\ parts # <<>>
  /\ LET part == Head(parts)
         what == Iteration(part, resolved)
     IN  /\ parts' = Tail(parts)
         /\ resolved' = IF what = "store" THEN from_xdg_name(part) ELSE resolved
         /\ pc' = IF what = "conflict" THEN "done" ELSE "loop"
         /\ ret' = IF what = "conflict" THEN None ELSE ret
  /\ UNCHANGED <<platform, env, call, xdg_current_desktop>>

\* faulty variant: a fallback variant returned when no token classified
LoopExitFallback ==
  /\ pc = "loop" /\ parts = <<>>
  /\ Return(IF resolved = None THEN "Old" ELSE resolved)

LoopExit ==
  /\ pc = "loop" /\ parts = <<>>
  /\ Return(resolved)

Next ==
  \/ DetectMacOs
  \/ DetectWindows
  \/ DetectOtherNoVar
  \/ DetectOtherVar
  \/ FromFreedesktop
  \/ FromXdgName
  \/ Gtk
  \/ Qt
  \/ FromXdgCurrentDesktop
  \/ LoopStep
  \/ LoopExit

Spec == Init /\ [][Next]_vars

-----------------------------------------------------------------------------
(* Properties *)

Returned(f) == pc = "done" /\ call.fn = f

OtherPlatform == platform \notin {"macos", "windows"}

\* the tokens of the argument of from_xdg_current_desktop
Tokens == Split(xdg_current_desktop)

\* the classifications of the tokens of t that from_xdg_name classifies
Classes(t) == { from_xdg_name(t[i]) : i \in 1..Len(t) } \ {None}

\* the classification of the first token of t that classifies, if any
FirstClassified(t) ==
  LET I == { i \in 1..Len(t) : from_xdg_name(t[i]) # None }
  IN  IF I = {} THEN None
      ELSE from_xdg_name(t[CHOOSE i \in I : \A j \in I : i <= j])

\* the tokens the loop has consumed so far
Consumed == SubSeq(Tokens, 1, Len(Tokens) - Len(parts))

RegisteredNames ==
  { "GNOME", "GNOME-Classic", "GNOME-Flashback", "KDE", "LXDE", "LXQt", "MATE",
    "Razor", "ROX", "TDE", "Unity", "XFCE", "EDE", "Cinnamon", "Pantheon",
    "DDE", "Endless", "Old" }

ExtraNames == { "ENLIGHTENMENT", "Hyprland", "SWAY", "X-Cinnamon" }

GtkSet ==
  { "Cinnamon", "Cosmic", "Dde", "Gnome", "Lxde", "Mate", "Pantheon", "Unity",
    "Xfce" }

QtSet == { "Kde", "Lxqt", "Razor", "Tde" }

Undetectable == { "Cosmic", "MacOs", "Windows" }

\* C1: when two tokens of the argument classify to different desktop
\* environments, from_xdg_current_desktop returns None, wherever the two
\* tokens sit and whatever unrecognized tokens surround them.
C1_ConflictIsNone ==
  Returned("from_xdg_current_desktop") =>
    ((\E i, j \in 1..Len(Tokens) :
        /\ from_xdg_name(Tokens[i]) # None
        /\ from_xdg_name(Tokens[j]) # None
        /\ from_xdg_name(Tokens[i]) # from_xdg_name(Tokens[j]))
     => ret = None)

\* "KDE:ubuntu:GNOME" has been parsed: a conflict across an unrecognized token
C1_Witness ==
  /\ Returned("from_xdg_current_desktop")
  /\ xdg_current_desktop = <<"KDE", ":", "ubuntu", ":", "GNOME">>
  /\ ret = None

\* C2: when at least one token classifies and all classified tokens map to
\* the same desktop environment d, from_xdg_current_desktop returns Some(d);
\* unrecognized tokens are skipped, repeats are allowed, and sameness is
\* judged on the classification, not on the token text.
C2_AgreementResolves ==
  Returned("from_xdg_current_desktop") =>
    \A d \in DesktopEnvironment : Classes(Tokens) = {d} => ret = d

\* ":GNOME:GNOME-Classic" has been parsed: a skipped (empty) token and two
\* different spellings of one classification
C2_Witness ==
  /\ Returned("from_xdg_current_desktop")
  /\ xdg_current_desktop = <<":", "GNOME", ":", "GNOME", "-Classic">>
  /\ ret = "Gnome"

\* C3: when no token of the argument classifies (the empty string, only
\* colons, only unknown names), from_xdg_current_desktop returns None.
C3_NothingClassifiedIsNone ==
  Returned("from_xdg_current_desktop") =>
    (Classes(Tokens) = {} => ret = None)

\* "::" has been parsed: three empty tokens
C3_Witness ==
  /\ Returned("from_xdg_current_desktop")
  /\ xdg_current_desktop = <<":", ":">>
  /\ Tokens = <<"", "", "">>
  /\ ret = None

\* C4: from_xdg_name extends from_freedesktop: where from_freedesktop gives
\* Some(d) so does from_xdg_name, with the same d; where from_freedesktop
\* gives None, from_xdg_name gives Some exactly for the four extra names.
C4_XdgNameExtendsFreedesktop ==
  Returned("from_xdg_name") =>
    /\ from_freedesktop(call.name) # None => ret = from_freedesktop(call.name)
    /\ from_freedesktop(call.name) = None =>
         (ret # None <=> call.name \in ExtraNames)

\* from_xdg_name("Cinnamon") has returned what from_freedesktop gives
C4_Witness ==
  /\ Returned("from_xdg_name")
  /\ call.name = "Cinnamon"
  /\ from_freedesktop(call.name) = "Cinnamon"
  /\ ret = "Cinnamon"

\* C5: from_freedesktop returns Some exactly for the 18 registered spellings,
\* compared case-sensitively, and None for every other string.
C5_FreedesktopExactMatch ==
  Returned("from_freedesktop") => (ret # None <=> call.name \in RegisteredNames)

\* from_freedesktop("kde") has returned None
C5_Witness ==
  /\ Returned("from_freedesktop")
  /\ call.name = "kde"
  /\ ret = None

\* C6: on macOS detect() returns Some(MacOs) and on Windows Some(Windows),
\* whatever XDG_CURRENT_DESKTOP holds.
C6_PlatformFixed ==
  Returned("detect") =>
    /\ platform = "macos" => ret = "MacOs"
    /\ platform = "windows" => ret = "Windows"

\* detect() has returned on macOS with XDG_CURRENT_DESKTOP=KDE
C6_Witness ==
  /\ Returned("detect")
  /\ platform = "macos"
  /\ env.present /\ env.value = <<"KDE">>
  /\ ret = "MacOs"

\* C7 as stated: on a platform other than macOS and Windows detect() returns
\* None when XDG_CURRENT_DESKTOP is absent and from_xdg_current_desktop(v)
\* whenever it is present with value v.
C7_Original ==
  (Returned("detect") /\ OtherPlatform) =>
    ret = IF env.present THEN from_xdg_current_desktop(env.value) ELSE None

\* C7, amended: on a platform other than macOS and Windows detect() returns
\* from_xdg_current_desktop(v) when XDG_CURRENT_DESKTOP is present with a
\* value v that is valid Unicode, and None when it is absent or present but
\* not valid Unicode; no step of the call changes the environment.
C7_DetectOther ==
  [][ (call.fn = "detect" /\ OtherPlatform) =>
        /\ env' = env
        /\ pc' = "done" =>
             ret' = IF env.present /\ ValidUnicode(env.value)
                      THEN from_xdg_current_desktop(env.value)
                      ELSE None ]_vars

\* detect() has returned None on Linux for a value that names KDE but is
\* not valid Unicode
C7_Witness ==
  /\ Returned("detect")
  /\ platform = "linux"
  /\ env.present /\ env.value = <<"KDE", ":", InvalidBytes>>
  /\ ret = None

\* C8: gtk() is true exactly for Cinnamon, Cosmic, Dde, Gnome, Lxde, Mate,
\* Pantheon, Unity and Xfce; qt() is true exactly for Kde, Lxqt, Razor and Tde.
C8_Capabilities ==
  /\ Returned("gtk") => (ret <=> call.self \in GtkSet)
  /\ Returned("qt") => (ret <=> call.self \in QtSet)

\* Pantheon.gtk() has returned true
C8_Witness ==
  /\ Returned("gtk")
  /\ call.self = "Pantheon"
  /\ ret = TRUE

\* C9: during the scan the resolved slot holds the classification of the
\* first classifiable token consumed so far (None before it), is never
\* overwritten once set, the scan goes on after the slot is set, and a
\* non-None result is returned only after the last token and equals the
\* classification of the first classifiable token.
C9_ResolvedWriteOnce ==
  [][ pc = "loop" =>
        /\ resolved = FirstClassified(Consumed)
        /\ resolved # None => resolved' = resolved
        /\ (resolved = None /\ resolved' # None) =>
             /\ pc' = "loop"
             /\ resolved' = from_xdg_name(Head(parts))
        /\ (pc' = "done" /\ ret' # None) =>
             /\ parts = <<>>
             /\ ret' = FirstClassified(Tokens) ]_vars

\* the scan is past a classified token and about to read a last token that
\* classifies differently
C9_Witness ==
  /\ pc = "loop"
  /\ resolved # None
  /\ Len(parts) = 1
  /\ from_xdg_name(Head(parts)) \notin {None, resolved}

\* C10: from_freedesktop, from_xdg_name and from_xdg_current_desktop never
\* return Cosmic, MacOs or Windows; detect() never returns one of them on a
\* platform other than macOS and Windows, and returns Cosmic on none.
C10_NoPathToCosmic ==
  /\ call.fn \in {"from_freedesktop", "from_xdg_name", "from_xdg_current_desktop"}
       => ret \notin Undetectable /\ resolved \notin Undetectable
  /\ (call.fn = "detect" /\ OtherPlatform)
       => ret \notin Undetectable /\ resolved \notin Undetectable
  /\ call.fn = "detect" => ret # "Cosmic"

\* detect() has returned None on Linux with XDG_CURRENT_DESKTOP=ubuntu:COSMIC
C10_Witness ==
  /\ Returned("detect")
  /\ platform = "linux"
  /\ env.present /\ env.value = <<"ubuntu", ":", "COSMIC">>
  /\ ret = None

====
